---------------------------- MODULE Spec2Model ----------------------------
(***************************************************************************)
(* A model of euchre/model.py: the Color and Suit enumerations, the rank   *)
(* and suit symbol tables, Card, the DECK_CARDS catalog, Deck, Hand and    *)
(* Player.                                                                 *)
(*                                                                         *)
(* Python values are modelled as follows.                                  *)
(*   - a str is a sequence of one-character TLA+ strings: "AH" is          *)
(*     <<"A", "H">>, the one-character str "A" is <<"A">>;                 *)
(*   - an iterable of tokens (a tuple, a list, or a str being iterated)    *)
(*     is a sequence of strs; Iter turns a str into the sequence of its    *)
(*     one-character strs, as Python's iteration does;                     *)
(*   - a list object lives in the heap `lists` and is named by its index   *)
(*     (its reference); Deck, Hand and Player objects live in `decks`,     *)
(*     `hands`, `players` and hold references, as the Python objects do;   *)
(*   - the outcome of a call is a record with the exception raised         *)
(*     (exc = "" when none) and the value returned.                        *)
(***************************************************************************)
EXTENDS Integers, Sequences, FiniteSets, TLC

VARIABLES
    lists,      \* heap of list objects: reference -> sequence of Card
    decks,      \* Deck objects: id -> [_cards |-> list reference]
    hands,      \* Hand objects: id -> [cards |-> list reference]
    players,    \* Player objects: id -> [_hand |-> Hand id]
    owned,      \* list references the caller created itself
    given,      \* history: the Hand id each Player was constructed with
    made,       \* history: the ids of the Decks that Deck.new() returned
    nmut,       \* number of caller mutations applied so far
    call        \* the last call: operation, argument, outcome

vars == <<lists, decks, hands, players, owned, given, made, nmut, call>>

---------------------------------------------------------------------------
(* Bounds of the model *)

\* answers of the random generator explored by Deck.new() among other calls
MaxAnswer == 1
\* draws of a recorded run of the generator replaced by any other value
MaxSwaps == 1
\* Deck objects built in one behaviour
MaxDecks == 2
\* Hand objects built in one behaviour
MaxHands == 1
\* Player objects built in one behaviour
MaxPlayers == 1
\* caller mutations of a list (append, pop, reverse) in one behaviour
MaxMutations == 1
\* tokens in the argument of Hand.from_str
MaxTokens == 3
\* items in the argument of Card.from_pair
MaxPairLen == 3
\* lists the caller builds itself in one behaviour
MaxOwned == 1

---------------------------------------------------------------------------
(* Color and Suit *)

BLACK == 1
RED == 2

CLUBS == 1
DIAMONDS == 2
HEARTS == 3
SPADES == 4

\* iterating the Suit enumeration yields its members in definition order
Suit == <<CLUBS, DIAMONDS, HEARTS, SPADES>>

\* a plausible slip in Suit.color: the comparison taken on the code divided
\* in halves instead of on the code modulo 4
color_low_half(self) == IF self <= 2 THEN BLACK ELSE RED

\* Suit.color
color(self) == IF self % 4 <= 1 THEN BLACK ELSE RED

---------------------------------------------------------------------------
(* Symbol tables *)

RANKS_STR == <<"9", "T", "J", "Q", "K", "A">>
SUITS_STR == <<"C", "D", "H", "S">>

Min(a, b) == IF a <= b THEN a ELSE b

\* iterating a str yields its one-character strs
Iter(s) == [i \in 1..Len(s) |-> <<s[i]>>]

\* range(a, b) as a sequence
Range(a, b) == [i \in 1..(b - a) |-> a + i - 1]

\* dict(zip(keys, values)): stops at the shorter, a later duplicate key wins
DictZip(keys, values) ==
    LET n == Min(Len(keys), Len(values))
    IN  [k \in {keys[i] : i \in 1..n} |->
            values[CHOOSE i \in 1..n :
                      /\ keys[i] = k
                      /\ \A j \in 1..n : keys[j] = k => j <= i]]

RANKS == DictZip(Iter(RANKS_STR), Range(9, 15))
SUITS == DictZip(Iter(SUITS_STR), Suit)

---------------------------------------------------------------------------
(* Card *)

NoCard == [_rank |-> 0, _suit |-> 0, _str |-> <<>>]

Returned(card) == [exc |-> "", key |-> <<>>, len |-> 0, card |-> card]
KeyError(key) == [exc |-> "KeyError", key |-> key, len |-> 0, card |-> NoCard]
ValueError(n) == [exc |-> "ValueError", key |-> <<>>, len |-> n, card |-> NoCard]

\* '{}{}'.format(rank, suit), written the other way round
Format_swapped(rank, suit) == suit \o rank

\* '{}{}'.format(rank, suit)
Format(rank, suit) == rank \o suit

\* Card.__init__ with a suit lookup that falls back to the first suit
Card_init_lenient(rank, suit) ==
    IF rank \notin DOMAIN RANKS THEN KeyError(rank)
    ELSE Returned([_rank |-> RANKS[rank],
                   _suit |-> IF suit \in DOMAIN SUITS THEN SUITS[suit] ELSE CLUBS,
                   _str |-> Format(rank, suit)])

\* Card.__init__: the rank lookup comes first, then the suit lookup
Card_init(rank, suit) ==
    IF rank \notin DOMAIN RANKS THEN KeyError(rank)
    ELSE IF suit \notin DOMAIN SUITS THEN KeyError(suit)
    ELSE Returned([_rank |-> RANKS[rank],
                   _suit |-> SUITS[suit],
                   _str |-> Format(rank, suit)])

\* Card.__str__
Card_str(card) == card._str

\* Card.from_pair that only rejects pairs that are too short
Card_from_pair_prefix(card) ==
    IF Len(card) < 2 THEN ValueError(Len(card))
    ELSE Card_init(card[1], card[2])

\* Card.from_pair
Card_from_pair(card) ==
    IF Len(card) # 2 THEN ValueError(Len(card))
    ELSE Card_init(card[1], card[2])

---------------------------------------------------------------------------
(* The deck catalog *)

\* itertools.product(a, b) with the suits iterated first and the ranks inside
product_suit_major(a, b) ==
    [k \in 1..(Len(a) * Len(b)) |->
        << <<a[((k - 1) % Len(a)) + 1]>>, <<b[((k - 1) \div Len(a)) + 1]>> >>]

\* itertools.product(a, b) of two strs: the tuples (x, y), the first
\* iterable in the outer loop and the second in the inner loop
product(a, b) ==
    [k \in 1..(Len(a) * Len(b)) |->
        << <<a[((k - 1) \div Len(b)) + 1]>>, <<b[((k - 1) % Len(b)) + 1]>> >>]

\* [Card.from_pair(card) for card in itertools.product(RANKS_STR, SUITS_STR)]
BuildCatalog ==
    LET pairs == product(RANKS_STR, SUITS_STR)
    IN  [k \in 1..Len(pairs) |-> Card_from_pair(pairs[k]).card]

\* the module-level name DECK_CARDS refers to the first list object built
DECK_CARDS == 1

---------------------------------------------------------------------------
(* random.shuffle *)

\* random.shuffle(x) asks the generator for randbelow(i + 1) for
\* i = len(x) - 1 down to 1 and exchanges x[i] and x[j].  The values the
\* generator returns are the input `draws`, in the order they are drawn:
\* draws[k] is the k-th value, drawn for i = len(x) - k, and lies in 0..i.
\* Whatever the generator returns, the outcome of the code is
\* random_shuffle(x, draws) for the draws it made.

Swap(x, i, j) == [x EXCEPT ![i] = x[j], ![j] = x[i]]

\* a swap that loses the element it should move: x[i] = x[j] alone
Overwrite(x, i, j) == [x EXCEPT ![i] = x[j]]

RECURSIVE ShuffleFrom(_, _, _)
\* the loop from the k-th draw on (positions are 1-based here: the Python
\* indices i and j are the positions i + 1 and j + 1)
ShuffleFrom(x, k, draws) ==
    IF k > Len(x) - 1 THEN x
    ELSE LET i == Len(x) - k
             j == draws[k]
         IN  ShuffleFrom(Swap(x, i + 1, j + 1), k + 1, draws)

RECURSIVE ShuffleFrom_overwrite(_, _, _)
ShuffleFrom_overwrite(x, k, draws) ==
    IF k > Len(x) - 1 THEN x
    ELSE LET i == Len(x) - k
             j == draws[k]
         IN  ShuffleFrom_overwrite(Overwrite(x, i + 1, j + 1), k + 1, draws)

\* a shuffle whose swap overwrites instead of exchanging
random_shuffle_overwrite(x, draws) == ShuffleFrom_overwrite(x, 1, draws)

\* random.shuffle(x) when the generator returns draws
random_shuffle(x, draws) == ShuffleFrom(x, 1, draws)

\* the draws of a generator that answers randbelow(n) with a % n; for
\* a = 0 every card is exchanged with the first one
AnswerDraws(a, n) == [k \in 1..(n - 1) |-> a % (n - k + 1)]

\* the draws that leave a list of n items as it is: j = i every time
StayDraws(n) == [k \in 1..(n - 1) |-> n - k]

\* the draws random.shuffle makes on 24 items after random.seed(0),
\* random.seed(1) and random.seed(2)
SeededDraws ==
    << <<12, 13, 1, 8, 16, 15, 12, 9, 15, 5, 9, 3, 8, 2, 4, 2, 1, 4, 2, 4, 1, 1, 0>>,
       <<4, 18, 2, 8, 3, 15, 14, 15, 12, 12, 3, 1, 7, 0, 6, 6, 0, 5, 3, 2, 1, 2, 0>>,
       <<1, 2, 2, 11, 5, 9, 8, 6, 1, 9, 10, 2, 6, 10, 6, 8, 5, 4, 3, 4, 2, 0, 0>> >>

\* a change of one draw: the k-th draw becomes j, still in range
DrawEdits(n) == {e \in (1..(n - 1)) \X (0..(n - 1)) : e[2] <= n - e[1]}

RECURSIVE Perturbed(_, _, _)
\* base with the first m of the changes in edits applied
Perturbed(base, edits, m) ==
    IF m = 0 THEN base
    ELSE [Perturbed(base, edits, m - 1) EXCEPT ![edits[m][1]] = edits[m][2]]

---------------------------------------------------------------------------
(* The heap: Deck, Hand, Player and the lists they refer to *)

\* the state once the module has been imported: the catalog is the only list
HeapInit ==
    /\ lists = <<BuildCatalog>>
    /\ decks = <<>>
    /\ hands = <<>>
    /\ players = <<>>
    /\ owned = {}
    /\ given = <<>>
    /\ made = {}
    /\ nmut = 0

\* Deck.cards
Deck_cards(d) == decks[d]._cards

\* Player.hand
Player_hand(p) == players[p]._hand

\* the list references a caller can hold.  Every list object is handed to
\* the caller when it is created: the catalog under the public name
\* DECK_CARDS, the list of a new Deck through Deck.cards, the list of a new
\* Hand through the attribute Hand.cards, and the lists the caller builds
\* itself.  The caller may keep a reference it has read, so a list stays
\* within reach after Hand.cards is rebound to another list.
Reachable == 1..Len(lists)

\* Deck.__init__ that takes a copy of the sequence it is given
Deck_init_copy(cards) ==
    /\ Len(decks) < MaxDecks
    /\ cards \in Reachable
    /\ lists' = Append(lists, lists[cards])
    /\ decks' = Append(decks, [_cards |-> Len(lists) + 1])
    /\ call' = [op |-> "Deck", arg |-> cards, ret |-> Len(decks) + 1]
    /\ UNCHANGED <<hands, players, owned, given, nmut, made>>

\* Deck(cards): the deck keeps the reference it is given
Deck_init(cards) ==
    /\ Len(decks) < MaxDecks
    /\ cards \in Reachable
    /\ decks' = Append(decks, [_cards |-> cards])
    /\ call' = [op |-> "Deck", arg |-> cards, ret |-> Len(decks) + 1]
    /\ UNCHANGED <<lists, hands, players, owned, given, nmut, made>>

\* Deck.new() without the copy: the catalog itself is shuffled and wrapped
Deck_new_nocopy(draws) ==
    /\ Len(decks) < MaxDecks
    /\ lists' = [lists EXCEPT ![DECK_CARDS] = random_shuffle(@, draws)]
    /\ decks' = Append(decks, [_cards |-> DECK_CARDS])
    /\ made' = made \cup {Len(decks) + 1}
    /\ call' = [op |-> "Deck.new", arg |-> 0, ret |-> Len(decks) + 1]
    /\ UNCHANGED <<hands, players, owned, given, nmut>>

\* Deck.new() with a shuffle that overwrites
Deck_new_overwrite(draws) ==
    /\ Len(decks) < MaxDecks
    /\ lists' = Append(lists, random_shuffle_overwrite(lists[DECK_CARDS], draws))
    /\ decks' = Append(decks, [_cards |-> Len(lists) + 1])
    /\ made' = made \cup {Len(decks) + 1}
    /\ call' = [op |-> "Deck.new", arg |-> 0, ret |-> Len(decks) + 1]
    /\ UNCHANGED <<hands, players, owned, given, nmut>>

\* Deck.new(): cards = DECK_CARDS.copy(); random.shuffle(cards); cls(cards)
Deck_new(draws) ==
    /\ Len(decks) < MaxDecks
    /\ lists' = Append(lists, random_shuffle(lists[DECK_CARDS], draws))
    /\ decks' = Append(decks, [_cards |-> Len(lists) + 1])
    /\ made' = made \cup {Len(decks) + 1}
    /\ call' = [op |-> "Deck.new", arg |-> 0, ret |-> Len(decks) + 1]
    /\ UNCHANGED <<hands, players, owned, given, nmut>>

RECURSIVE ParseFrom_partial(_, _, _)
ParseFrom_partial(tokens, i, acc) ==
    IF i > Len(tokens) THEN [exc |-> "", key |-> <<>>, len |-> 0, cards |-> acc]
    ELSE LET r == Card_from_pair(tokens[i])
         IN  IF r.exc # ""
             THEN [exc |-> "", key |-> <<>>, len |-> 0, cards |-> acc]
             ELSE ParseFrom_partial(tokens, i + 1, Append(acc, r.card))

\* a comprehension that stops at the first bad token and keeps what it has
ParseCards_partial(tokens) == ParseFrom_partial(tokens, 1, <<>>)

RECURSIVE ParseFrom(_, _, _)
ParseFrom(tokens, i, acc) ==
    IF i > Len(tokens) THEN [exc |-> "", key |-> <<>>, len |-> 0, cards |-> acc]
    ELSE LET r == Card_from_pair(tokens[i])
         IN  IF r.exc # ""
             THEN [exc |-> r.exc, key |-> r.key, len |-> r.len, cards |-> <<>>]
             ELSE ParseFrom(tokens, i + 1, Append(acc, r.card))

\* [Card.from_pair(card) for card in cards]: in order, the first exception
\* raised leaves the comprehension
ParseCards(tokens) == ParseFrom(tokens, 1, <<>>)

\* Hand.from_str(cards)
Hand_from_str(tokens) ==
    /\ Len(hands) < MaxHands
    /\ LET r == ParseCards(tokens)
       IN  IF r.exc = ""
           THEN /\ lists' = Append(lists, r.cards)
                /\ hands' = Append(hands, [cards |-> Len(lists) + 1])
                /\ call' = [op |-> "Hand.from_str", arg |-> tokens, exc |-> "",
                            key |-> <<>>, len |-> 0, ret |-> Len(hands) + 1]
           ELSE /\ call' = [op |-> "Hand.from_str", arg |-> tokens, exc |-> r.exc,
                            key |-> r.key, len |-> r.len, ret |-> 0]
                /\ UNCHANGED <<lists, hands>>
    /\ UNCHANGED <<decks, players, owned, given, nmut, made>>

\* Hand(cards): the attribute is bound to the reference given
Hand_init(cards) ==
    /\ Len(hands) < MaxHands
    /\ cards \in Reachable
    /\ hands' = Append(hands, [cards |-> cards])
    /\ call' = [op |-> "Hand", arg |-> cards, ret |-> Len(hands) + 1]
    /\ UNCHANGED <<lists, decks, players, owned, given, nmut, made>>

\* Player.__init__ that keeps a copy of the hand: a new Hand on a new list
Player_init_copy(hand) ==
    /\ Len(players) < MaxPlayers
    /\ hand \in 1..Len(hands)
    /\ lists' = Append(lists, lists[hands[hand].cards])
    /\ hands' = Append(hands, [cards |-> Len(lists) + 1])
    /\ players' = Append(players, [_hand |-> Len(hands) + 1])
    /\ given' = Append(given, hand)
    /\ call' = [op |-> "Player", arg |-> hand, ret |-> Len(players) + 1]
    /\ UNCHANGED <<decks, owned, nmut, made>>

\* Player(hand)
Player_init(hand) ==
    /\ Len(players) < MaxPlayers
    /\ hand \in 1..Len(hands)
    /\ players' = Append(players, [_hand |-> hand])
    /\ given' = Append(given, hand)
    /\ call' = [op |-> "Player", arg |-> hand, ret |-> Len(players) + 1]
    /\ UNCHANGED <<lists, decks, hands, owned, nmut, made>>

---------------------------------------------------------------------------
(* The caller: the game logic that holds references and changes lists *)

\* the caller builds a list of its own: [Card('9', 'C'), Card('A', 'S')]
List_new ==
    /\ Cardinality(owned) < MaxOwned
    /\ lists' = Append(lists, << Card_init(<<"9">>, <<"C">>).card,
                                 Card_init(<<"A">>, <<"S">>).card >>)
    /\ owned' = owned \cup {Len(lists) + 1}
    /\ call' = [op |-> "list", arg |-> 0, ret |-> Len(lists) + 1]
    /\ UNCHANGED <<decks, hands, players, given, nmut, made>>

\* ref.append(card) on a list the caller holds
List_append(ref, card) ==
    /\ nmut < MaxMutations
    /\ ref \in Reachable
    /\ lists' = [lists EXCEPT ![ref] = Append(@, card)]
    /\ nmut' = nmut + 1
    /\ call' = [op |-> "list.append", arg |-> ref, ret |-> 0]
    /\ UNCHANGED <<decks, hands, players, owned, given, made>>

\* ref.pop(i - 1) on a list the caller holds (i is the 1-based position)
List_pop(ref, i) ==
    /\ nmut < MaxMutations
    /\ ref \in Reachable
    /\ i \in 1..Len(lists[ref])
    /\ lists' = [lists EXCEPT ![ref] =
                    SubSeq(@, 1, i - 1) \o SubSeq(@, i + 1, Len(@))]
    /\ nmut' = nmut + 1
    /\ call' = [op |-> "list.pop", arg |-> ref, ret |-> 0]
    /\ UNCHANGED <<decks, hands, players, owned, given, made>>

\* ref.reverse() on a list the caller holds
List_reverse(ref) ==
    /\ nmut < MaxMutations
    /\ ref \in Reachable
    /\ lists' = [lists EXCEPT ![ref] =
                    [k \in 1..Len(@) |-> @[Len(@) + 1 - k]]]
    /\ nmut' = nmut + 1
    /\ call' = [op |-> "list.reverse", arg |-> ref, ret |-> 0]
    /\ UNCHANGED <<decks, hands, players, owned, given, made>>

\* hand.cards = ref: the attribute Hand.cards is rebound by its owner to
\* another list; the list it referred to stays with whoever read it before
Hand_set_cards(h, ref) ==
    /\ h \in 1..Len(hands)
    /\ ref \in Reachable
    /\ hands[h].cards # ref
    /\ hands' = [hands EXCEPT ![h].cards = ref]
    /\ call' = [op |-> "Hand.cards=", arg |-> ref, ret |-> h]
    /\ UNCHANGED <<lists, decks, players, owned, given, nmut, made>>

\* the tokens the caller hands to Hand.from_str: strs and tuples, good and bad
TokenChoices ==
    { Iter(<<"9", "C">>), << <<"A">>, <<"H">> >>, Iter(<<"9", "Z">>),
      Iter(<<"X", "C">>), Iter(<<"A", "H", "C">>), Iter(<<"T">>) }

TokenSeqs == UNION {[1..n -> TokenChoices] : n \in 0..MaxTokens}

\* the five-token hand of the repository's documentation
GoodHand ==
    << Iter(<<"9", "C">>), Iter(<<"T", "D">>), Iter(<<"J", "H">>),
       Iter(<<"Q", "S">>), Iter(<<"K", "C">>) >>

Init ==
    /\ HeapInit
    /\ call = [op |-> "import", arg |-> 0, ret |-> 0]

\* a caller mutating a list it holds
Mutate ==
    \/ \E ref \in Reachable : List_append(ref, Card_init(<<"J">>, <<"D">>).card)
    \/ \E ref \in Reachable : List_pop(ref, 1)
    \/ \E ref \in Reachable : List_reverse(ref)

\* decks: Deck.new(), Deck(cards) and callers changing the lists they hold
Next ==
    \/ \E a \in 0..MaxAnswer : Deck_new(AnswerDraws(a, Len(lists[DECK_CARDS])))
    \/ \E ref \in Reachable : Deck_init(ref)
    \/ List_new
    \/ Mutate

Spec == Init /\ [][Next]_vars

\* the draws a single Deck.new() starts from: the recorded runs of the
\* generator and the draws that move nothing
BaseDraws ==
    {SeededDraws[r] : r \in 1..Len(SeededDraws)} \cup {StayDraws(Len(BuildCatalog))}

\* one Deck.new() under every choice of draws, chosen first: what differs
\* from one of the base draws in at most MaxSwaps places
InitShuffle ==
    /\ HeapInit
    /\ \E base \in BaseDraws :
          \E edits \in [1..MaxSwaps -> DrawEdits(Len(BuildCatalog))] :
             call = [op |-> "draws", arg |-> Perturbed(base, edits, MaxSwaps),
                     ret |-> 0]

NextShuffle ==
    /\ call.op = "draws"
    /\ Deck_new(call.arg)

SpecShuffle == InitShuffle /\ [][NextShuffle]_vars

\* Hand.from_str on every token sequence: the sequence is drawn first
InitHand ==
    /\ HeapInit
    /\ \E tokens \in TokenSeqs :
          call = [op |-> "tokens", arg |-> tokens, ret |-> 0]

NextHand ==
    /\ call.op = "tokens"
    /\ Hand_from_str(call.arg)

SpecHand == InitHand /\ [][NextHand]_vars

\* players, the hands they are given and callers changing those hands
NextPlayer ==
    \/ Hand_from_str(GoodHand)
    \/ List_new
    \/ \E ref \in Reachable : Hand_init(ref)
    \/ \E h \in 1..Len(hands) : \E ref \in Reachable : Hand_set_cards(h, ref)
    \/ \E h \in 1..Len(hands) : Player_init(h)
    \/ Mutate

SpecPlayer == Init /\ [][NextPlayer]_vars

---------------------------------------------------------------------------
(* The functions of Suit and Card on every input *)

\* the strs offered as rank and suit tokens: every rank token, every suit
\* token, and strs that are in neither table
StrTokens ==
    {<<RANKS_STR[i]>> : i \in 1..Len(RANKS_STR)}
        \cup {<<SUITS_STR[i]>> : i \in 1..Len(SUITS_STR)}
        \cup {<<"X">>, <<"Z">>, <<"a">>, <<"1", "0">>, <<>>}

Pairs == UNION {[1..n -> StrTokens] : n \in 0..MaxPairLen}

InitCard ==
    /\ HeapInit
    /\ \/ \E suit \in {Suit[i] : i \in 1..Len(Suit)} :
             call = [op |-> "Suit.color", arg |-> suit, done |-> FALSE, ret |-> 0]
       \/ \E rank \in StrTokens : \E suit \in StrTokens :
             call = [op |-> "Card", arg |-> <<rank, suit>>, done |-> FALSE, ret |-> 0]
       \/ \E pair \in Pairs :
             call = [op |-> "Card.from_pair", arg |-> pair, done |-> FALSE, ret |-> 0]
       \/ \E rank \in StrTokens : \E suit \in StrTokens :
             call = [op |-> "str", arg |-> <<rank, suit>>, done |-> FALSE, ret |-> 0]

\* suit.color
Call_color ==
    /\ call.op = "Suit.color" /\ ~call.done
    /\ call' = [call EXCEPT !.done = TRUE, !.ret = color(call.arg)]
    /\ UNCHANGED <<lists, decks, hands, players, owned, given, nmut, made>>

\* Card(rank, suit)
Call_Card ==
    /\ call.op = "Card" /\ ~call.done
    /\ call' = [call EXCEPT !.done = TRUE,
                            !.ret = Card_init(call.arg[1], call.arg[2])]
    /\ UNCHANGED <<lists, decks, hands, players, owned, given, nmut, made>>

\* Card.from_pair(card)
Call_from_pair ==
    /\ call.op = "Card.from_pair" /\ ~call.done
    /\ call' = [call EXCEPT !.done = TRUE, !.ret = Card_from_pair(call.arg)]
    /\ UNCHANGED <<lists, decks, hands, players, owned, given, nmut, made>>

\* Card.from_pair(str(Card(rank, suit))): the str is iterated by from_pair
Call_str ==
    /\ call.op = "str" /\ ~call.done
    /\ LET c == Card_init(call.arg[1], call.arg[2])
       IN  call' = [call EXCEPT
                       !.done = TRUE,
                       !.ret = IF c.exc # "" THEN [text |-> <<>>, built |-> c, parsed |-> c]
                               ELSE [text |-> Card_str(c.card),
                                     built |-> c,
                                     parsed |-> Card_from_pair(Iter(Card_str(c.card)))]]
    /\ UNCHANGED <<lists, decks, hands, players, owned, given, nmut, made>>

NextCard ==
    \/ Call_color
    \/ Call_Card
    \/ Call_from_pair
    \/ Call_str

SpecCard == InitCard /\ [][NextCard]_vars

---------------------------------------------------------------------------
(* Properties *)

\* the tokens of the two tables, written out
RankTokens == {<<"9">>, <<"T">>, <<"J">>, <<"Q">>, <<"K">>, <<"A">>}
SuitTokens == {<<"C">>, <<"D">>, <<"H">>, <<"S">>}

\* the 0-based position of the one-character str c in the str s
PositionIn(s, c) == (CHOOSE i \in 1..Len(s) : <<s[i]>> = c) - 1

ColorDone == call.op = "Suit.color" /\ call.done

\* C1 as stated: color_of(CLUBS) = BLACK, color_of(DIAMONDS) = BLACK,
\* color_of(HEARTS) = RED, color_of(SPADES) = RED (codes 1 and 2 are BLACK,
\* codes 3 and 4 are RED).
C1_ColorByHalves ==
    ColorDone =>
        /\ call.arg = CLUBS => call.ret = BLACK
        /\ call.arg = DIAMONDS => call.ret = BLACK
        /\ call.arg = HEARTS => call.ret = RED
        /\ call.arg = SPADES => call.ret = RED

\* C1 amended: the color of CLUBS is BLACK, of DIAMONDS is RED, of HEARTS is
\* RED and of SPADES is BLACK (codes 1 and 4 are BLACK, codes 2 and 3 are RED).
C1_ColorOfSuit ==
    ColorDone =>
        /\ call.arg = CLUBS => call.ret = BLACK
        /\ call.arg = DIAMONDS => call.ret = RED
        /\ call.arg = HEARTS => call.ret = RED
        /\ call.arg = SPADES => call.ret = BLACK

C1_Witness == ColorDone /\ call.arg = SPADES /\ call.ret = BLACK

\* C2: the catalog has exactly 24 cards, every combination of the 6 ranks
\* and 4 suits appears exactly once, and the order is rank-major in "9TJQKA"
\* order with the suits in "CDHS" order inside each rank.
C2_CatalogOrder ==
    LET catalog == lists[DECK_CARDS]
    IN  /\ Len(catalog) = 24
        /\ \A rank \in 9..14 : \A suit \in {CLUBS, DIAMONDS, HEARTS, SPADES} :
              Cardinality({k \in 1..Len(catalog) :
                              /\ catalog[k]._rank = rank
                              /\ catalog[k]._suit = suit}) = 1
        /\ \A k \in 1..Len(catalog) :
              /\ catalog[k]._rank = 9 + ((k - 1) \div 4)
              /\ catalog[k]._suit = 1 + ((k - 1) % 4)
              /\ catalog[k]._str = << RANKS_STR[1 + ((k - 1) \div 4)],
                                      SUITS_STR[1 + ((k - 1) % 4)] >>

C2_Witness ==
    /\ call.op = "Deck.new"
    /\ lists[DECK_CARDS][2]._str = <<"9", "D">>
    /\ lists[DECK_CARDS][5]._str = <<"T", "C">>

\* x holds each element of y exactly once and nothing else
IsPermutation(x, y) ==
    /\ Len(x) = Len(y)
    /\ \A k \in 1..Len(y) :
          Cardinality({i \in 1..Len(x) : x[i] = y[k]}) = 1

\* C3: whatever the shuffle does, the card sequence of the deck Deck.new()
\* returns has 24 cards and holds each catalog card exactly once.
C3_NewDeckIsPermutation ==
    call.op = "Deck.new" =>
        /\ Len(lists[Deck_cards(call.ret)]) = 24
        /\ IsPermutation(lists[Deck_cards(call.ret)], lists[DECK_CARDS])

C3_Witness ==
    /\ call.op = "Deck.new"
    /\ lists[Deck_cards(call.ret)] # lists[DECK_CARDS]
    /\ lists[Deck_cards(call.ret)][24] # lists[DECK_CARDS][24]

\* the step taken is a Deck.new() call, or a change the caller makes to the
\* card sequence of a deck that Deck.new() returned
NewDeckStep ==
    \/ call'.op = "Deck.new"
    \/ /\ call'.op \in {"list.append", "list.pop", "list.reverse"}
       /\ call'.arg \in {Deck_cards(d) : d \in made}

\* C4: the catalog is never mutated by Deck.new() nor by any reordering,
\* removal or append applied to the card sequence of a deck that Deck.new()
\* returned: such a step leaves the catalog as it is, and Deck.new() on the
\* catalog as built yields all 24 distinct cards.
C4_CatalogUnchanged ==
    /\ [](call.op = "Deck.new" /\ lists[DECK_CARDS] = BuildCatalog =>
             Cardinality({<<lists[Deck_cards(call.ret)][i]._rank,
                            lists[Deck_cards(call.ret)][i]._suit>> :
                               i \in 1..Len(lists[Deck_cards(call.ret)])}) = 24)
    /\ [][NewDeckStep => lists'[DECK_CARDS] = lists[DECK_CARDS]]_vars

C4_Witness ==
    /\ call.op = "Deck.new"
    /\ made = {1, 2}
    /\ nmut > 0
    /\ Len(lists[Deck_cards(1)]) # 24
    /\ lists[Deck_cards(2)] # BuildCatalog
    /\ lists[DECK_CARDS] = BuildCatalog

CardDone == call.op = "Card" /\ call.done

\* C5: Card(rank, suit) succeeds exactly when rank is one of "9TJQKA" and
\* suit one of "CDHS"; the card then has rank 9 plus the position of the rank
\* token and the suit at the position of the suit token; otherwise the call
\* fails with the invalid-token condition (KeyError) and yields no card.
C5_ConstructOutcome ==
    CardDone =>
        LET rank == call.arg[1]
            suit == call.arg[2]
        IN  IF rank \in RankTokens /\ suit \in SuitTokens
            THEN /\ call.ret.exc = ""
                 /\ call.ret.card._rank = 9 + PositionIn(RANKS_STR, rank)
                 /\ call.ret.card._suit =
                       <<CLUBS, DIAMONDS, HEARTS, SPADES>>[1 + PositionIn(SUITS_STR, suit)]
            ELSE /\ call.ret.exc = "KeyError"
                 /\ call.ret.card = NoCard

C5_Witness ==
    /\ CardDone
    /\ call.arg = << <<"9">>, <<"Z">> >>
    /\ call.ret.exc = "KeyError"

PairDone == call.op = "Card.from_pair" /\ call.done

\* C6: Card.from_pair(pair) fails with the invalid-arity condition
\* (ValueError), reporting the actual length, whenever the length of pair is
\* not 2, whatever its items are; when the length is 2 its outcome is the
\* outcome of Card(first item, second item).
C6_FromPairOutcome ==
    PairDone =>
        IF Len(call.arg) # 2
        THEN /\ call.ret.exc = "ValueError"
             /\ call.ret.len = Len(call.arg)
             /\ call.ret.card = NoCard
        ELSE call.ret = Card_init(call.arg[1], call.arg[2])

C6_Witness ==
    /\ PairDone
    /\ call.arg = << <<"A">>, <<"H">>, <<"C">> >>
    /\ call.ret.exc = "ValueError"
    /\ call.ret.len = 3

ValidToken(t) == Len(t) = 2 /\ t[1] \in RankTokens /\ t[2] \in SuitTokens

\* C7: Hand.from_str is all-or-nothing and fail-fast: when every token is a
\* valid two-item card token the Hand holds one card per token, in token
\* order; otherwise the call fails with the condition of the first invalid
\* token and no Hand, not even a partial one, is built.
C7_HandAllOrNothing ==
    call.op = "Hand.from_str" =>
        LET tokens == call.arg
            bad == {i \in 1..Len(tokens) : ~ValidToken(tokens[i])}
        IN  IF bad = {}
            THEN /\ call.exc = ""
                 /\ call.ret = 1 /\ Len(hands) = 1
                 /\ Len(lists[hands[1].cards]) = Len(tokens)
                 /\ \A i \in 1..Len(tokens) :
                       LET c == lists[hands[1].cards][i]
                       IN  /\ c._str = tokens[i][1] \o tokens[i][2]
                           /\ c._rank = 9 + PositionIn(RANKS_STR, tokens[i][1])
                           /\ c._suit = 1 + PositionIn(SUITS_STR, tokens[i][2])
            ELSE LET first == CHOOSE i \in bad : \A j \in bad : i <= j
                 IN  /\ call.ret = 0
                     /\ hands = <<>>
                     /\ Len(lists) = 1
                     /\ IF Len(tokens[first]) # 2
                        THEN call.exc = "ValueError" /\ call.len = Len(tokens[first])
                        ELSE call.exc = "KeyError"

C7_Witness ==
    /\ call.op = "Hand.from_str"
    /\ Len(call.arg) = 3
    /\ ValidToken(call.arg[1])
    /\ ~ValidToken(call.arg[2])
    /\ Len(call.arg[3]) # 2
    /\ call.exc = "KeyError"
    /\ hands = <<>>

StrDone == call.op = "str" /\ call.done

\* C8: for every rank token r and suit token s the text of Card(r, s) is
\* the two-character r + s, and Card.from_pair of that text yields a card
\* with the same rank and suit.
C8_TextRoundTrip ==
    (StrDone /\ call.arg[1] \in RankTokens /\ call.arg[2] \in SuitTokens) =>
        /\ call.ret.built.exc = ""
        /\ call.ret.text = call.arg[1] \o call.arg[2]
        /\ Len(call.ret.text) = 2
        /\ call.ret.parsed.exc = ""
        /\ call.ret.parsed.card._rank = call.ret.built.card._rank
        /\ call.ret.parsed.card._suit = call.ret.built.card._suit

C8_Witness ==
    /\ StrDone
    /\ call.arg = << <<"J">>, <<"D">> >>
    /\ call.ret.text = <<"J", "D">>
    /\ call.ret.parsed.card._rank = 11

\* C9 as stated: a Deck owns its card sequence exclusively: the sequence of
\* a deck is never one the caller built and still holds, and two decks never
\* share one sequence.
C9_ExclusiveOwnership ==
    /\ \A d \in 1..Len(decks) : Deck_cards(d) \notin owned
    /\ \A d \in 1..Len(decks) : \A e \in 1..Len(decks) :
          d # e => Deck_cards(d) # Deck_cards(e)

\* C9 amended: Deck.new() builds the deck on a sequence of its own: when
\* the deck is returned its sequence is neither the catalog, nor a sequence
\* the caller built, nor the sequence of another deck or of a hand.
\* Deck(cards) keeps the very sequence it was passed, without a copy, and
\* Deck.cards returns it: the deck sees every later change the caller makes
\* to it, and decks built from one sequence share it.
C9_OwnershipByConstruction ==
    /\ call.op = "Deck.new" =>
          /\ Deck_cards(call.ret) # DECK_CARDS
          /\ Deck_cards(call.ret) \notin owned
          /\ \A d \in 1..Len(decks) :
                d # call.ret => Deck_cards(d) # Deck_cards(call.ret)
          /\ \A h \in 1..Len(hands) : hands[h].cards # Deck_cards(call.ret)
    /\ call.op = "Deck" => Deck_cards(call.ret) = call.arg

C9_Witness ==
    /\ Len(decks) = 2
    /\ Deck_cards(1) \in owned
    /\ Deck_cards(2) = Deck_cards(1)
    /\ call.op = "list.append"
    /\ Len(lists[Deck_cards(2)]) = 3

\* C10: a Player keeps the Hand it was constructed with: whatever is done
\* to the hand's cards, Player.hand is the Hand instance supplied to
\* Player(hand), never a copy and never replaced, so the player sees the
\* hand's current cards.
C10_PlayerKeepsHand ==
    /\ Len(given) = Len(players)
    /\ \A p \in 1..Len(players) :
          /\ Player_hand(p) = given[p]
          /\ Player_hand(p) \in 1..Len(hands)

C10_Witness ==
    /\ Len(players) = 1
    /\ nmut > 0
    /\ call.op = "list.pop"
    /\ call.arg = hands[Player_hand(1)].cards
    /\ Len(lists[hands[Player_hand(1)].cards]) = 4

=============================================================================
